---------------------------- MODULE Spec2Model ----------------------------
(***************************************************************************)
(* Model of streamlit_app.py, the Global Energy Transition Explorer.       *)
(*                                                                         *)
(* Three specifications share the definitions below:                       *)
(*   Spec      the process: a sequence of renders of main(), the files it  *)
(*             reads and the two st.cache_data caches;                     *)
(*   SpecLoad  load_sheet's column normalisation applied to bounded sheets;*)
(*   SpecView  melt_time_series and time_series_layout applied to bounded  *)
(*             Wide Tables and country selections.                         *)
(*                                                                         *)
(* Python values are records [t, s, n]: a str is its sequence of           *)
(* characters, an int its number, NaN the missing value.  A DataFrame is   *)
(* [columns, data]: the labels, and for each label its column of cells.    *)
(***************************************************************************)
EXTENDS Integers, Sequences, FiniteSets, TLC

VARIABLES
    data_file,    \* DATA_FILE.exists()
    workbook,     \* which workbook lies at DATA_FILE
    md_present,   \* the companion markdown files that exist
    sheet_cache,  \* st.cache_data of load_sheet: sheet name -> entry
    md_cache,     \* st.cache_data of load_markdown: path -> entry
    reads,        \* pd.read_excel calls so far, per sheet name
    renders,      \* runs of main() so far
    ui,           \* what the last run of main() put on the page
    arg,          \* SpecLoad, SpecView: the input of the function applied
    ret           \* SpecLoad, SpecView: what it returned or displayed

vars == <<data_file, workbook, md_present, sheet_cache, md_cache, reads,
          renders, ui, arg, ret>>

---------------------------------------------------------------------------
(* Characters and Python's str operations.                                 *)

\* The characters the model's strings use, in code point order.
Alphabet ==
    << " ", "-", ".", "0", "1", "2", "3", "4", "5", "6", "7", "8", "9", ":",
       "A", "B", "C", "D", "E", "F", "G", "H", "I", "J", "U",
       "a", "d", "e", "l", "m", "n", "o", "r", "s", "t", "u", "x", "y" >>

Ord(c) == CHOOSE i \in 1..Len(Alphabet) : Alphabet[i] = c

Digits == <<"0", "1", "2", "3", "4", "5", "6", "7", "8", "9">>

IsDigit(c) == \E i \in 1..10 : Digits[i] = c

DigitValue(c) == (CHOOSE i \in 1..10 : Digits[i] = c) - 1

\* Python's str < str: by code point, a proper prefix first.
RECURSIVE LexLess(_, _)
LexLess(a, b) ==
    IF b = <<>> THEN FALSE
    ELSE IF a = <<>> THEN TRUE
    ELSE IF Head(a) = Head(b) THEN LexLess(Tail(a), Tail(b))
    ELSE Ord(Head(a)) < Ord(Head(b))

StartsWith(s, p) == Len(s) >= Len(p) /\ SubSeq(s, 1, Len(p)) = p

RECURSIVE LStrip(_)
LStrip(s) == IF s # <<>> /\ Head(s) = " " THEN LStrip(Tail(s)) ELSE s

RECURSIVE RStrip(_)
RStrip(s) ==
    IF s # <<>> /\ s[Len(s)] = " " THEN RStrip(SubSeq(s, 1, Len(s) - 1)) ELSE s

Strip(s) == RStrip(LStrip(s))

\* str(n) for an int.
RECURSIVE NatToStr(_)
NatToStr(n) ==
    IF n < 10 THEN <<Digits[n + 1]>>
    ELSE NatToStr(n \div 10) \o <<Digits[(n % 10) + 1]>>

IntToStr(n) == IF n < 0 THEN <<"-">> \o NatToStr(-n) ELSE NatToStr(n)

AllDigits(s) == s # <<>> /\ \A i \in 1..Len(s) : IsDigit(s[i])

RECURSIVE DigitsToNat(_, _)
DigitsToNat(s, acc) ==
    IF s = <<>> THEN acc
    ELSE DigitsToNat(Tail(s), (10 * acc) + DigitValue(Head(s)))

\* Whether int(s) accepts the text: blanks around an optional sign and digits.
IntTextOK(s) ==
    LET b == Strip(s)
    IN  /\ b # <<>>
        /\ IF Head(b) = "-" THEN AllDigits(Tail(b)) ELSE AllDigits(b)

\* int(s) of such a text.
IntTextValue(s) ==
    LET b == Strip(s)
    IN  IF Head(b) = "-" THEN 0 - DigitsToNat(Tail(b), 0) ELSE DigitsToNat(b, 0)

---------------------------------------------------------------------------
(* Python values and DataFrames.                                           *)

StrV(s) == [t |-> "str", s |-> s, n |-> 0]
IntV(n) == [t |-> "int", s |-> <<>>, n |-> n]
NaN == [t |-> "nan", s |-> <<>>, n |-> 0]

\* str(v) of a label or cell.
PyStr(v) == IF v.t = "int" THEN IntToStr(v.n) ELSE v.s

COUNTRY == StrV(<<"C", "o", "u", "n", "t", "r", "y">>)

UNNAMED == <<"U", "n", "n", "a", "m", "e", "d">>

COAL == StrV(<<"C", "o", "a", "l">>)

GAS == StrV(<<"G", "a", "s">>)

\* The i-th country name of the model: "A", "B", ...
CountryName(i) == <<Alphabet[Ord("A") + i - 1]>>

Frame(columns, data) == [columns |-> columns, data |-> data]

NRows(df) == IF df.data = <<>> THEN 0 ELSE Len(df.data[1])

---------------------------------------------------------------------------
(* load_sheet: the normalisation of the sheet pd.read_excel returned.      *)

\* The positions, from i on, of the labels "^Unnamed" does not match.
RECURSIVE KeptColumns(_, _)
KeptColumns(columns, i) ==
    IF i > Len(columns) THEN <<>>
    ELSE (IF StartsWith(PyStr(columns[i]), UNNAMED) THEN <<>> ELSE <<i>>)
         \o KeptColumns(columns, i + 1)

\* df.loc[:, ~df.columns.astype(str).str.contains("^Unnamed")]
DropUnnamed(df) ==
    LET keep == KeptColumns(df.columns, 1)
    IN  Frame([j \in 1..Len(keep) |-> df.columns[keep[j]]],
              [j \in 1..Len(keep) |-> df.data[keep[j]]])

\* A loop that keeps every label as read, forgetting int(col).
NewColumnKeepsText(col) == col

\* new_columns[col] of the loop: int(col), or col when int(col) raises.
NewColumn(col) ==
    IF col.t = "int" THEN IntV(col.n)
    ELSE IF col.t = "str" /\ IntTextOK(col.s) THEN IntV(IntTextValue(col.s))
    ELSE col

\* The loop skips "Country"; rename leaves a label without an entry as it is.
RenameColumn(col) == IF col = COUNTRY THEN col ELSE NewColumn(col)

NormalizeSheet(raw) ==
    LET df == DropUnnamed(raw)
    IN  Frame([j \in 1..Len(df.columns) |-> RenameColumn(df.columns[j])], df.data)

---------------------------------------------------------------------------
(* melt_time_series.                                                       *)

RECURSIVE IndexOf(_, _, _)
IndexOf(seq, x, i) ==
    IF i > Len(seq) THEN 0 ELSE IF seq[i] = x THEN i ELSE IndexOf(seq, x, i + 1)

\* The position of the "Country" column; 0 when df["Country"] is a KeyError.
CountryIdx(df) == IndexOf(df.columns, COUNTRY, 1)

\* [col for col in df.columns if col != "Country"], as positions.
RECURSIVE ValueColsFrom(_, _)
ValueColsFrom(columns, i) ==
    IF i > Len(columns) THEN <<>>
    ELSE (IF columns[i] # COUNTRY THEN <<i>> ELSE <<>>)
         \o ValueColsFrom(columns, i + 1)

ValueCols(df) == ValueColsFrom(df.columns, 1)

\* df.melt(id_vars="Country", value_vars=year_cols, ...): one row per cell of
\* a value column, column after column.
Melted(df) ==
    LET vc == ValueCols(df)
        n  == NRows(df)
    IN  [k \in 1..(Len(vc) * n) |->
            LET c == vc[((k - 1) \div n) + 1]
                r == ((k - 1) % n) + 1
            IN  [Country |-> df.data[CountryIdx(df)][r],
                 Year    |-> df.columns[c],
                 Value   |-> df.data[c][r]]]

\* .dropna(subset=["Value"])
RECURSIVE DropNaValue(_)
DropNaValue(rows) ==
    IF rows = <<>> THEN <<>>
    ELSE (IF Head(rows).Value.t = "nan" THEN <<>> ELSE <<Head(rows)>>)
         \o DropNaValue(Tail(rows))

\* pd.to_numeric(errors="coerce") of one cell: a number stays, a text that
\* reads as a number becomes it, any other text becomes NaN.
ToNumeric(v) ==
    IF v.t = "int" THEN v
    ELSE IF v.t = "str" /\ IntTextOK(v.s) THEN IntV(IntTextValue(v.s))
    ELSE NaN

\* long_df["Year"].astype(str) and long_df["Value"] = pd.to_numeric(...)
Coerced(rows) ==
    [k \in 1..Len(rows) |->
        [Country |-> rows[k].Country,
         Year    |-> PyStr(rows[k].Year),
         Value   |-> ToNumeric(rows[k].Value)]]

\* A melt without the second dropna: the cells that failed coercion stay.
melt_keeps_uncoerced(df) == Coerced(DropNaValue(Melted(df)))

melt_time_series(df) == DropNaValue(Coerced(DropNaValue(Melted(df))))

---------------------------------------------------------------------------
(* time_series_layout.                                                     *)

\* sorted(...) of a set of str.
RECURSIVE SortedStrs(_)
SortedStrs(S) ==
    IF S = {} THEN <<>>
    ELSE LET m == CHOOSE x \in S : \A y \in S \ {x} : LexLess(x, y)
         IN  <<m>> \o SortedStrs(S \ {m})

SeqRange(seq) == {seq[i] : i \in 1..Len(seq)}

\* df["Country"].dropna().unique(), as the set of names.
CountryNames(df) ==
    LET col == df.data[CountryIdx(df)]
    IN  {col[r].s : r \in {q \in 1..Len(col) : col[q].t # "nan"}}

\* The names in order of first appearance: unique() without sorted().
RECURSIVE UniqueFrom(_, _, _)
UniqueFrom(col, r, seen) ==
    IF r > Len(col) THEN <<>>
    ELSE IF col[r].t = "nan" \/ col[r].s \in seen THEN UniqueFrom(col, r + 1, seen)
    ELSE <<col[r].s>> \o UniqueFrom(col, r + 1, seen \cup {col[r].s})

CountriesUnsorted(df) == UniqueFrom(df.data[CountryIdx(df)], 1, {})

\* countries = sorted(df["Country"].dropna().unique())
Countries(df) == SortedStrs(CountryNames(df))

\* The literal 8 of countries[:8] if len(countries) > 8.
DEFAULT_COUNTRIES == 8

\* default_selection = countries[:8] if len(countries) > 8 else countries
DefaultSelection(countries) ==
    IF Len(countries) > DEFAULT_COUNTRIES
    THEN SubSeq(countries, 1, DEFAULT_COUNTRIES)
    ELSE countries

\* long_df[long_df["Country"].isin(selected)]
RECURSIVE RowsOfCountries(_, _)
RowsOfCountries(rows, selected) ==
    IF rows = <<>> THEN <<>>
    ELSE (IF Head(rows).Country.t = "str" /\ Head(rows).Country.s \in selected
          THEN <<Head(rows)>> ELSE <<>>)
         \o RowsOfCountries(Tail(rows), selected)

\* if selected: long_df = long_df[...isin(selected)]  (an empty selection
\* leaves long_df as melted).
ChartRows(df, selected) ==
    IF selected # {} THEN RowsOfCountries(melt_time_series(df), selected)
    ELSE melt_time_series(df)

\* year_order = sorted(long_df["Year"].unique()): Year holds str by then.
YearOrder(rows) == SortedStrs({rows[k].Year : k \in 1..Len(rows)})

\* a < b of two Python values of one type.
ValueLess(a, b) == IF a.t = "int" THEN a.n < b.n ELSE LexLess(a.s, b.s)

\* Whether Python can order the values: all int or all str (int < str raises
\* TypeError).
Comparable(S) == \A a \in S, b \in S : a.t = b.t

\* max(value_cols)
MaxValue(S) == CHOOSE m \in S : \A x \in S : ~ValueLess(m, x)

RECURSIVE PermSeqs(_)
PermSeqs(S) ==
    IF S = {} THEN {<<>>}
    ELSE UNION {{<<x>> \o p : p \in PermSeqs(S \ {x})} : x \in S}

\* The row orders .sort_values(col, ascending=False) can give: the present
\* values first, none before a greater one (the order of equal values is the
\* sort's), then the missing ones in their original order.
SortOrders(cells) ==
    LET n == Len(cells)
        present == {r \in 1..n : cells[r].t # "nan"}
        k == Cardinality(present)
    IN  {p \in PermSeqs(1..n) :
            /\ \A i \in 1..k : p[i] \in present
            /\ \A i \in 1..(k - 1) : ~ValueLess(cells[p[i]], cells[p[i + 1]])
            /\ \A i \in (k + 1)..n, j \in (k + 1)..n : i < j => p[i] < p[j]}

\* The "Latest year snapshot" block: what it shows, or that it raised.
NoSnapshot == [shown |-> FALSE, raised |-> FALSE, latest |-> NaN, orders |-> {<<>>}]

SnapshotBlock(df) ==
    LET vc == ValueCols(df)
        labels == {df.columns[vc[i]] : i \in 1..Len(vc)}
    IN  IF vc = <<>> THEN NoSnapshot
        ELSE IF ~Comparable(labels)
        THEN [NoSnapshot EXCEPT !.raised = TRUE]
        ELSE LET latest == MaxValue(labels)
                 cells == df.data[IndexOf(df.columns, latest, 1)]
                 present == {cells[r] : r \in {q \in 1..Len(cells) : cells[q].t # "nan"}}
             IN  IF ~Comparable(present)
                 THEN [NoSnapshot EXCEPT !.raised = TRUE, !.latest = latest]
                 ELSE [shown |-> TRUE, raised |-> FALSE, latest |-> latest,
                       orders |-> SortOrders(cells)]

\* The rows of the snapshot table under one row order.
SnapshotRows(df, latest, order) ==
    [i \in 1..Len(order) |->
        [Country |-> df.data[CountryIdx(df)][order[i]],
         Value   |-> df.data[IndexOf(df.columns, latest, 1)][order[i]]]]

\* df[df["Country"].isin(selected)] or df, as the rows shown.
RECURSIVE TableRowsFrom(_, _, _)
TableRowsFrom(df, selected, r) ==
    IF r > NRows(df) THEN <<>>
    ELSE LET c == df.data[CountryIdx(df)][r]
         IN  (IF selected = {} \/ (c.t = "str" /\ c.s \in selected)
              THEN <<r>> ELSE <<>>)
             \o TableRowsFrom(df, selected, r + 1)

\* What the user can have picked in the multiselect (the default on a first
\* run): any choice among few options, the default or nothing among many.
Selections(df) ==
    LET names == CountryNames(df)
    IN  IF Cardinality(names) <= 2 THEN SUBSET names
        ELSE {{}, SeqRange(DefaultSelection(Countries(df)))}

\* A page on which no view has put anything.
EmptyPage ==
    [view |-> "none", subheader |-> "", options |-> <<>>, default |-> <<>>,
     selected |-> {}, chart |-> FALSE, chart_rows |-> <<>>, year_order |-> <<>>,
     info |-> FALSE, snapshot |-> FALSE, latest |-> NaN, snapshot_rows |-> <<>>,
     data_table |-> FALSE, table_rows |-> <<>>, mix |-> <<>>,
     raised |-> FALSE]

\* time_series_layout(label, df) with the multiselect returning `selected`
\* and the snapshot's sort giving the row order `order`.
time_series_layout(label, df, selected, order) ==
    LET countries == Countries(df)
        long_df == ChartRows(df, selected)
        snap == SnapshotBlock(df)
        top == [EmptyPage EXCEPT
                   !.view = "time_series",
                   !.subheader = label,
                   !.options = countries,
                   !.default = DefaultSelection(countries),
                   !.selected = selected,
                   !.chart = (long_df # <<>>),
                   !.chart_rows = long_df,
                   !.year_order = YearOrder(long_df),
                   !.info = (long_df = <<>>)]
    IN  IF snap.raised THEN [top EXCEPT !.raised = TRUE, !.latest = snap.latest]
        ELSE [top EXCEPT
                 !.snapshot = snap.shown,
                 !.latest = snap.latest,
                 !.snapshot_rows =
                     IF snap.shown THEN SnapshotRows(df, snap.latest, order) ELSE <<>>,
                 !.data_table = TRUE,
                 !.table_rows = TableRowsFrom(df, selected, 1)]

---------------------------------------------------------------------------
(* power_mix_layout.                                                       *)

\* (mix_df_display["Share"] * 100).round(2) of a share that is a number or
\* missing.
SharePercent(v) == IF v.t = "int" THEN IntV(v.n * 100) ELSE NaN

\* The first row of df[df["Country"] == selected]; 0 when there is none and
\* .iloc[0] raises IndexError.
RECURSIVE FirstRowOf(_, _, _)
FirstRowOf(df, name, r) ==
    IF r > NRows(df) THEN 0
    ELSE LET c == df.data[CountryIdx(df)][r]
         IN  IF c.t = "str" /\ {c.s} = name THEN r ELSE FirstRowOf(df, name, r + 1)

\* power_mix_layout(df) with the selectbox returning `selected`: {name}, or {}
\* for the None of an empty option list.
power_mix_layout(df, selected) ==
    LET countries == Countries(df)
        row == FirstRowOf(df, selected, 1)
        source_cols == ValueCols(df)
        top == [EmptyPage EXCEPT
                   !.view = "power_mix",
                   !.subheader = "Power Sector Decarbonisation (generation mix share)",
                   !.options = countries,
                   !.default = IF countries = <<>> THEN <<>> ELSE <<countries[1]>>,
                   !.selected = selected]
    IN  IF row = 0 THEN [top EXCEPT !.raised = TRUE]
        ELSE [top EXCEPT
                 !.chart = TRUE,
                 !.mix = [i \in 1..Len(source_cols) |->
                             [Source  |-> df.columns[source_cols[i]],
                              Share   |-> df.data[source_cols[i]][row],
                              Percent |-> SharePercent(df.data[source_cols[i]][row])]],
                 !.data_table = TRUE]

---------------------------------------------------------------------------
(* The files the process reads.                                            *)

DATA_FILE == "2025 Country Transition Tracker Data.xlsx"

SHEETS ==
    ("Energy Related Greenhouse Gas Emissions (Mt CO2e)" :> "Greenhouse Gas Emissions")
    @@ ("Fossil Fuel Consumption (EJ)" :> "Fossil Fuel Consumption (EJ)")
    @@ ("Renewable Energy Consumption (EJ)" :> "Renewable Energy Consumption")
    @@ ("Power Sector Decarbonisation (generation mix share)" :> "Power Sector Decarbonisation")
    @@ ("Carbon Intensity (tCO2-eq per MJ)" :> "Carbon Int (tCO2-eq per MJ)")
    @@ ("Energy Consumption per Capita (GJ per person)" :> "Energy Consumption per Capita")
    @@ ("Economy-wide Carbon Intensity (CO2e per $ GDP)" :> "Economic Energy Intensity")
    @@ ("Carbon Intensity (CO2e per $ GDP)" :> "Carbon Intensity (per GDP)")

Indicators == DOMAIN SHEETS

SheetNames == {SHEETS[i] : i \in Indicators}

\* DESCRIPTIONS.get(indicator) is a non-empty text for every label of SHEETS.
DESCRIPTIONS == [i \in Indicators |-> TRUE]

GHG_MD == "greenhousegas.md"
CARBON_MD == "carbonintensity.md"

MarkdownPaths == {GHG_MD, CARBON_MD}

\* The workbooks that can lie at DATA_FILE: 1 holds every sheet, clean; 2
\* holds other figures, a text cell in the latest year of one sheet, a
\* composition sheet without rows, and lacks one sheet.
Workbooks == {1, 2}

SheetNumber(sheet) ==
    CASE sheet = "Greenhouse Gas Emissions" -> 1
      [] sheet = "Fossil Fuel Consumption (EJ)" -> 2
      [] sheet = "Renewable Energy Consumption" -> 3
      [] sheet = "Power Sector Decarbonisation" -> 4
      [] sheet = "Carbon Int (tCO2-eq per MJ)" -> 5
      [] sheet = "Energy Consumption per Capita" -> 6
      [] sheet = "Economic Energy Intensity" -> 7
      [] OTHER -> 8

TimeSeriesSheet(k, latest) ==
    Frame(<<COUNTRY, StrV(<<"2", "0", "2", "0">>), IntV(2021),
            StrV(UNNAMED \o <<":", " ", "3">>)>>,
          <<<<StrV(CountryName(1)), StrV(CountryName(2))>>,
            <<IntV(k), NaN>>,
            latest,
            <<NaN, NaN>>>>)

CompositionSheet(rows) ==
    Frame(<<COUNTRY, COAL, GAS>>,
          <<[r \in 1..rows |-> StrV(CountryName(r))],
            [r \in 1..rows |-> IntV(r)],
            [r \in 1..rows |-> IntV(3 - r)]>>)

\* Whether the workbook holds the sheet.
HasSheet(wb, sheet) == ~(wb = 2 /\ sheet = "Carbon Int (tCO2-eq per MJ)")

\* pd.read_excel(DATA_FILE, sheet_name=sheet) of a sheet the workbook holds.
ReadExcel(wb, sheet) ==
    IF sheet = "Power Sector Decarbonisation"
    THEN CompositionSheet(IF wb = 2 THEN 0 ELSE 2)
    ELSE IF wb = 2 /\ sheet = "Greenhouse Gas Emissions"
    THEN TimeSeriesSheet(SheetNumber(sheet), <<StrV(<<"x">>), IntV(wb)>>)
    ELSE TimeSeriesSheet(SheetNumber(sheet), <<IntV(wb), IntV(SheetNumber(sheet))>>)

---------------------------------------------------------------------------
(* Spec: the process.  main() runs once per render; the two caches live as *)
(* long as the process; the files change under it.                         *)

MaxRenders == 2

NoFrame == Frame(<<>>, <<>>)

NoArg == [df |-> NoFrame, label |-> ""]
NoRet == [op |-> "none", long |-> <<>>, frame |-> NoFrame, page |-> EmptyPage]

\* The page before main() has put anything on it.
NoUi ==
    [indicator |-> "", sheet |-> "", description |-> FALSE, error |-> "",
     loader_called |-> FALSE, read |-> FALSE, loaded |-> FALSE, df |-> NoFrame,
     page |-> EmptyPage,
     md_called |-> FALSE, supp |-> "none", supp_path |-> "", raised |-> FALSE]

NoEntry == [cached |-> FALSE, value |-> NoFrame]
NoText == [cached |-> FALSE, value |-> ""]

ProcessInit ==
    /\ data_file = TRUE
    /\ workbook = 1
    /\ md_present = MarkdownPaths
    /\ sheet_cache = [s \in SheetNames |-> NoEntry]
    /\ md_cache = [p \in MarkdownPaths |-> NoText]
    /\ reads = [s \in SheetNames |-> 0]
    /\ renders = 0
    /\ ui = NoUi

processVars == <<data_file, workbook, md_present, sheet_cache, md_cache,
                 reads, renders, ui>>

Init == ProcessInit /\ arg = NoArg /\ ret = NoRet

\* main() without the check of DATA_FILE.exists().
DataFileAssumed == TRUE

\* DATA_FILE.exists()
DataFileExists == data_file

\* load_sheet without @st.cache_data: every call runs the body.
CacheNeverHit(sheet_name) == FALSE

\* Whether st.cache_data holds load_sheet's result for the sheet name.
CacheHit(sheet_name) == sheet_cache[sheet_name].cached

\* Whether st.cache_data holds load_markdown's result for the path.
MarkdownCacheHit(md_path) == md_cache[md_path].cached

\* The body of load_sheet on a sheet the workbook holds.
load_sheet(sheet_name) == NormalizeSheet(ReadExcel(workbook, sheet_name))

\* What the multiselect returns in a render of main(): its default, or
\* nothing once the user has cleared it.
FirstSelections(df) == {{}, SeqRange(DefaultSelection(Countries(df)))}

\* What the selectbox of power_mix_layout can return.
PowerSelections(df) ==
    IF CountryNames(df) = {} THEN {{}} ELSE {{c} : c \in CountryNames(df)}

\* A dispatch that compares the indicator label, not the sheet name, with the
\* literal.
DispatchByLabel(indicator, sheet_name, df) ==
    IF indicator = "Power Sector Decarbonisation"
    THEN {power_mix_layout(df, sel) : sel \in PowerSelections(df)}
    ELSE {time_series_layout(indicator, df, sel, order) :
             sel \in FirstSelections(df), order \in SnapshotBlock(df).orders}

\* main's dispatch: the pages the view it calls can produce.
Dispatch(indicator, sheet_name, df) ==
    IF sheet_name = "Power Sector Decarbonisation"
    THEN {power_mix_layout(df, sel) : sel \in PowerSelections(df)}
    ELSE {time_series_layout(indicator, df, sel, order) :
             sel \in FirstSelections(df), order \in SnapshotBlock(df).orders}

\* A supplementary step that knows the first label only.
SupplementaryPathFirstOnly(indicator) ==
    IF indicator = "Energy Related Greenhouse Gas Emissions (Mt CO2e)" THEN GHG_MD
    ELSE ""

\* The companion file of the indicator; "" when it has none.
SupplementaryPath(indicator) ==
    IF indicator = "Energy Related Greenhouse Gas Emissions (Mt CO2e)" THEN GHG_MD
    ELSE IF indicator = "Carbon Intensity (tCO2-eq per MJ)" THEN CARBON_MD
    ELSE ""

\* The body of load_markdown.
load_markdown(md_path) == IF md_path \notin md_present THEN "" ELSE "text"

\* One run of main() with the indicator selected in the sidebar.
Render ==
    /\ renders < MaxRenders
    /\ renders' = renders + 1
    /\ \E indicator \in Indicators :
        LET sheet_name == SHEETS[indicator]
            head == [NoUi EXCEPT !.indicator = indicator,
                                 !.sheet = sheet_name,
                                 !.description = DESCRIPTIONS[indicator]]
            hit == CacheHit(sheet_name)
            called == [head EXCEPT !.loader_called = TRUE, !.read = ~hit]
        IN  IF ~DataFileExists
            THEN \* st.error(...); return
                 /\ ui' = [head EXCEPT !.error = DATA_FILE]
                 /\ UNCHANGED <<sheet_cache, md_cache, reads>>
            ELSE IF ~hit /\ ~HasSheet(workbook, sheet_name)
            THEN \* pd.read_excel raises; st.cache_data stores nothing
                 /\ reads' = [reads EXCEPT ![sheet_name] = @ + 1]
                 /\ ui' = [called EXCEPT !.raised = TRUE]
                 /\ UNCHANGED <<sheet_cache, md_cache>>
            ELSE LET df == IF hit THEN sheet_cache[sheet_name].value
                           ELSE load_sheet(sheet_name)
                     md_path == SupplementaryPath(indicator)
                 IN  /\ reads' = IF hit THEN reads
                                 ELSE [reads EXCEPT ![sheet_name] = @ + 1]
                     /\ sheet_cache' =
                            IF hit THEN sheet_cache
                            ELSE [sheet_cache EXCEPT
                                     ![sheet_name] = [cached |-> TRUE, value |-> df]]
                     /\ \E page \in Dispatch(indicator, sheet_name, df) :
                          LET viewed == [called EXCEPT !.loaded = TRUE, !.df = df,
                                                    !.page = page]
                          IN  IF page.raised
                              THEN /\ ui' = [viewed EXCEPT !.raised = TRUE]
                                   /\ UNCHANGED md_cache
                              ELSE IF md_path = ""
                              THEN /\ ui' = viewed
                                   /\ UNCHANGED md_cache
                              ELSE LET content ==
                                          IF MarkdownCacheHit(md_path)
                                          THEN md_cache[md_path].value
                                          ELSE load_markdown(md_path)
                                   IN  /\ md_cache' =
                                              [md_cache EXCEPT ![md_path] =
                                                  [cached |-> TRUE, value |-> content]]
                                       /\ ui' = [viewed EXCEPT
                                                    !.md_called = TRUE,
                                                    !.supp_path = md_path,
                                                    !.supp = IF content # ""
                                                             THEN "content"
                                                             ELSE "warning"]
    /\ UNCHANGED <<data_file, workbook, md_present, arg, ret>>

\* The workbook file is deleted or moved away.
RemoveWorkbook ==
    /\ data_file
    /\ data_file' = FALSE
    /\ UNCHANGED <<workbook, md_present, sheet_cache, md_cache, reads, renders,
                   ui, arg, ret>>

\* A workbook is put at DATA_FILE.
PutWorkbook ==
    /\ \E wb \in Workbooks :
          /\ ~(data_file /\ workbook = wb)
          /\ data_file' = TRUE
          /\ workbook' = wb
    /\ UNCHANGED <<md_present, sheet_cache, md_cache, reads, renders, ui, arg, ret>>

\* A companion markdown file is written.
WriteMarkdown ==
    /\ \E p \in MarkdownPaths \ md_present : md_present' = md_present \cup {p}
    /\ UNCHANGED <<data_file, workbook, sheet_cache, md_cache, reads, renders,
                   ui, arg, ret>>

\* A companion markdown file is deleted.
RemoveMarkdown ==
    /\ \E p \in md_present : md_present' = md_present \ {p}
    /\ UNCHANGED <<data_file, workbook, sheet_cache, md_cache, reads, renders,
                   ui, arg, ret>>

Next == Render \/ RemoveWorkbook \/ PutWorkbook \/ WriteMarkdown \/ RemoveMarkdown

Spec == Init /\ [][Next]_vars

---------------------------------------------------------------------------
(* Properties of Spec.                                                     *)

POWER_LABEL == "Power Sector Decarbonisation (generation mix share)"

SupplementaryLabels ==
    {"Energy Related Greenhouse Gas Emissions (Mt CO2e)",
     "Carbon Intensity (tCO2-eq per MJ)"}

\* The step is a run of main().
RenderStep == renders' = renders + 1

OneViewByIndicator ==
    \/ ui.page.view = "power_mix" /\ ui.indicator = POWER_LABEL
    \/ ui.page.view = "time_series" /\ ui.indicator # POWER_LABEL

\* C1 (the claim as stated): in every render in which the workbook file
\* exists exactly one view is rendered, the Composition View iff the indicator
\* resolves to "Power Sector Decarbonisation", the Time-Series View otherwise.
C1_ExactlyOneViewWhenFileExists ==
    (renders > 0 /\ ui.error = "") => OneViewByIndicator

\* C1 (amended): in every render in which the workbook file exists and the
\* Workbook Loader returns the sheet, exactly one view is rendered, chosen as
\* above; in a render in which the loader raises, neither is.
C1_ExactlyOneViewWhenLoaded ==
    renders > 0 =>
        /\ ui.loaded => OneViewByIndicator
        /\ ~ui.loaded => ui.page.view = "none"
        /\ (ui.error = "" /\ ~ui.loaded) => (ui.read /\ ui.raised)

\* Renders of both views have happened: the last one the Composition View of
\* a sheet that an earlier render has not touched.
C1_Witness ==
    /\ renders = 2
    /\ ui.page.view = "power_mix"
    /\ ui.sheet = "Power Sector Decarbonisation"
    /\ \E s \in SheetNames \ {ui.sheet} : sheet_cache[s].cached

\* C2: in every render in which the workbook file is absent, whatever the
\* indicator and whether or not its sheet is cached, main() displays the error
\* naming the expected path, does not call the Workbook Loader and renders
\* neither view.
C2_AbsentWorkbookShortCircuits ==
    [][(RenderStep /\ ~data_file) =>
          /\ ui'.error = DATA_FILE
          /\ ~ui'.loader_called
          /\ ui'.page.view = "none"
          /\ ui'.page = EmptyPage
          /\ reads' = reads
          /\ sheet_cache' = sheet_cache]_vars

\* A render with the workbook gone of an indicator whose sheet an earlier
\* render has cached.
C2_Witness ==
    /\ renders = 2
    /\ ~data_file
    /\ ui.error = DATA_FILE
    /\ sheet_cache[ui.sheet].cached

\* C4 (the claim as stated): the supplementary step depends only on the
\* indicator label: with one of the two labels the content or the warning is
\* displayed whatever the state of the workbook, with any other label neither.
C4_SupplementaryByLabelOnly ==
    renders > 0 =>
        (ui.indicator \in SupplementaryLabels <=> ui.supp \in {"content", "warning"})

\* C4 (amended): the content or the warning of the companion file is
\* displayed exactly in the renders whose indicator is one of the two labels
\* and in which main() gets past the view (the workbook exists, the sheet
\* loads, the view returns); in every other render neither is displayed.
C4_SupplementaryAfterView ==
    renders > 0 =>
        /\ ui.supp \in {"content", "warning"}
              <=> /\ ui.indicator \in SupplementaryLabels
                  /\ ui.error = ""
                  /\ ui.loaded
                  /\ ~ui.raised
        /\ ui.md_called <=> ui.supp # "none"
        /\ ui.supp # "none" =>
              ui.supp_path =
                  (IF ui.indicator = "Carbon Intensity (tCO2-eq per MJ)"
                   THEN "carbonintensity.md" ELSE "greenhousegas.md")

\* A render of the second label that ended with the warning.
C4_Witness ==
    /\ renders > 0
    /\ ui.indicator = "Carbon Intensity (tCO2-eq per MJ)"
    /\ ui.supp = "warning"
    /\ ui.supp_path = "carbonintensity.md"

\* C5 (the claim as stated): the workbook is read at most once per sheet name.
C5_ReadAtMostOncePerSheet ==
    \A s \in SheetNames : reads[s] <= 1

\* C5 (amended): a sheet name loaded successfully is never read again and
\* its cache entry never changes; a render of it receives the cached Wide
\* Table.  (A read that fails stores nothing, so only such reads repeat.)
C5_CachedSheetNeverReadAgain ==
    [][\A s \in SheetNames :
          sheet_cache[s].cached =>
              /\ sheet_cache'[s] = sheet_cache[s]
              /\ reads'[s] = reads[s]
              /\ (RenderStep /\ ui'.sheet = s /\ data_file) =>
                    /\ ui'.loaded
                    /\ ~ui'.read
                    /\ ui'.df = sheet_cache[s].value]_vars

\* A render served from the cache after the workbook has been replaced by
\* one whose sheet differs.
C5_Witness ==
    /\ renders = 2
    /\ data_file
    /\ ui.loaded
    /\ ~ui.read
    /\ ui.df = sheet_cache[ui.sheet].value
    /\ HasSheet(workbook, ui.sheet)
    /\ ui.df # load_sheet(ui.sheet)

---------------------------------------------------------------------------
(* SpecView: melt_time_series and time_series_layout on bounded tables.    *)

MaxRows == 2
MaxValueCols == 2
MaxCells == 4
MaxCountries == 9

\* Labels a loaded sheet can carry: years of one and of two digits, a category.
ViewLabels == <<IntV(9), IntV(10), COAL>>

\* Cells: missing, numbers, a text that reads as a number, a text that does not.
ViewCells == <<IntV(1), IntV(2), StrV(<<"3">>), StrV(<<"x">>), NaN>>

ViewCountryCells == <<StrV(CountryName(1)), StrV(CountryName(2)), NaN>>

Injective(f) == \A i \in DOMAIN f, j \in DOMAIN f : i # j => f[i] # f[j]

\* Small tables with every kind of cell.
\* The table whose labels, countries and cells are the chosen entries of
\* ViewLabels, ViewCountryCells and ViewCells.
SmallTable(labels, countries, data) ==
    Frame(<<COUNTRY>> \o [c \in DOMAIN labels |-> ViewLabels[labels[c]]],
          <<[r \in DOMAIN countries |-> ViewCountryCells[countries[r]]]>>
              \o [c \in DOMAIN data |->
                     [r \in DOMAIN data[c] |-> ViewCells[data[c][r]]]])

\* (rows, value columns) of the small tables.
Shapes ==
    {x \in (0..MaxRows) \X (0..MaxValueCols) : x[1] * x[2] <= MaxCells}

\* The names of S, last first.
RECURSIVE Descending(_)
Descending(S) ==
    IF S = {} THEN <<>>
    ELSE LET m == CHOOSE x \in S : \A y \in S : y <= x
         IN  <<StrV(CountryName(m))>> \o Descending(S \ {m})

\* A table of many countries: the names of S, unsorted, one twice and a row
\* without a country.
WideCountryTable(S) ==
    Frame(<<COUNTRY>>, <<Descending(S) \o <<StrV(CountryName(1)), NaN>>>>)

InitView ==
    /\ ProcessInit
    /\ ret = NoRet
    /\ \/ \E sh \in Shapes :
            \E labels \in {l \in [1..sh[2] -> DOMAIN ViewLabels] : Injective(l)},
               countries \in [1..sh[1] -> DOMAIN ViewCountryCells],
               data \in [1..sh[2] -> [1..sh[1] -> DOMAIN ViewCells]] :
                 arg = [df |-> SmallTable(labels, countries, data), label |-> "Trend"]
       \/ \E S \in SUBSET (1..MaxCountries) :
            arg = [df |-> WideCountryTable(S), label |-> "Trend"]

ApplyMelt ==
    /\ ret.op = "none"
    /\ ret' = [ret EXCEPT !.op = "melt", !.long = melt_time_series(arg.df)]
    /\ UNCHANGED <<processVars, arg>>

ApplyLayout ==
    /\ ret.op = "none"
    /\ \E selected \in Selections(arg.df), order \in SnapshotBlock(arg.df).orders :
          ret' = [ret EXCEPT !.op = "layout",
                             !.page = time_series_layout(arg.label, arg.df,
                                                         selected, order)]
    /\ UNCHANGED <<processVars, arg>>

NextView == ApplyMelt \/ ApplyLayout

SpecView == InitView /\ [][NextView]_vars

---------------------------------------------------------------------------
(* Properties of SpecView.                                                 *)

\* The cells (column position, row) of the value columns of the input table.
InputCells ==
    {<<c, r>> : c \in SeqRange(ValueCols(arg.df)), r \in 1..NRows(arg.df)}

\* The number a cell holds or spells, written out: a number itself, or the
\* number whose decimal writing the text is.
Spells(cell, v) ==
    \/ cell.t = "int" /\ cell.n = v
    \/ cell.t = "str" /\ IntToStr(v) = cell.s

Coercible(cell) == \E v \in 0..9 : Spells(cell, v)

\* The Long Table row a coercible cell stands for.
TripleOf(pos) ==
    LET cell == arg.df.data[pos[1]][pos[2]]
        label == arg.df.columns[pos[1]]
    IN  [Country |-> arg.df.data[CountryIdx(arg.df)][pos[2]],
         Year    |-> IF label.t = "int" THEN IntToStr(label.n) ELSE label.s,
         Value   |-> IntV(CHOOSE v \in 0..9 : Spells(cell, v))]

GoodCells == {pos \in InputCells : Coercible(arg.df.data[pos[1]][pos[2]])}

Count(seq, x) == Cardinality({k \in 1..Len(seq) : seq[k] = x})

\* C6: melt_time_series returns exactly one row (Country, label as string,
\* value as number) for every cell of a non-"Country" column that is present
\* and numerically coercible, no row for any other cell, and so no row with a
\* missing Value.
C6_MeltOneRowPerCoercibleCell ==
    ret.op = "melt" =>
        /\ Len(ret.long) = Cardinality(GoodCells)
        /\ \A pos \in GoodCells :
              Count(ret.long, TripleOf(pos))
                  = Cardinality({q \in GoodCells : TripleOf(q) = TripleOf(pos)})
        /\ \A k \in 1..Len(ret.long) : ret.long[k].Value.t = "int"

\* A melt that kept some cells and dropped a missing one, a text and kept a
\* text that reads as a number.
C6_Witness ==
    /\ ret.op = "melt"
    /\ Len(ret.long) >= 2
    /\ \E p \in InputCells, q \in InputCells, u \in InputCells :
          /\ arg.df.data[p[1]][p[2]] = NaN
          /\ arg.df.data[q[1]][q[2]] = StrV(<<"x">>)
          /\ arg.df.data[u[1]][u[2]] = StrV(<<"3">>)

\* The number a Year string writes.
YearNumber(y) == DigitsToNat(y, 0)

IntegerLabels ==
    \A c \in SeqRange(ValueCols(arg.df)) : arg.df.columns[c].t = "int"

\* C3 (the claim as stated): with an empty country selection the chart area
\* shows the prompt and no line chart; with a non-empty one the chart is drawn
\* over only the Long Table rows of the selected countries.
C3_EmptySelectionShowsPrompt ==
    ret.op = "layout" =>
        /\ ret.page.selected = {} => (ret.page.info /\ ~ret.page.chart)
        /\ ret.page.selected # {} =>
              \A k \in 1..Len(ret.page.chart_rows) :
                  ret.page.chart_rows[k].Country.s \in ret.page.selected

\* C9 (the claim as stated): year_order lists the Year strings of the charted
\* Long Table in increasing numeric year order, for every set of integer year
\* labels.
C9_YearOrderNumeric ==
    (ret.op = "layout" /\ IntegerLabels) =>
        \A i \in 1..Len(ret.page.year_order), j \in 1..Len(ret.page.year_order) :
            i < j => YearNumber(ret.page.year_order[i])
                         < YearNumber(ret.page.year_order[j])

\* C8: the default of the country multi-select is the first 8 distinct
\* non-missing country names in lexicographic order when there are more than
\* 8, and all of them, in lexicographic order, otherwise.
C8_DefaultSelection ==
    ret.op = "layout" =>
        LET d == ret.page.default
            names == {arg.df.data[1][r].s :
                         r \in {q \in 1..NRows(arg.df) : arg.df.data[1][q] # NaN}}
        IN  /\ SeqRange(d) \subseteq names
            /\ \A i \in 1..(Len(d) - 1) : LexLess(d[i], d[i + 1])
            /\ Len(d) = (IF Cardinality(names) > 8 THEN 8 ELSE Cardinality(names))
            /\ \A x \in names \ SeqRange(d) : \A i \in 1..Len(d) : LexLess(d[i], x)

\* A layout of a table of more than 8 countries.
C8_Witness ==
    /\ ret.op = "layout"
    /\ Len(ret.page.options) > 8
    /\ Len(ret.page.default) = 8

\* C7 (the claim as stated): with integer year labels the snapshot table has
\* one row per Wide Table row, carrying the row's value in the column of the
\* maximum year, ordered by non-increasing value (missing values last),
\* whatever the country selection.
C7_SnapshotAllRowsDescending ==
    (ret.op = "layout" /\ IntegerLabels /\ ValueCols(arg.df) # <<>>) =>
        LET rows == ret.page.snapshot_rows
            c == CHOOSE x \in SeqRange(ValueCols(arg.df)) :
                    \A y \in SeqRange(ValueCols(arg.df)) :
                        arg.df.columns[y].n <= arg.df.columns[x].n
            src == [r \in 1..NRows(arg.df) |->
                       [Country |-> arg.df.data[1][r], Value |-> arg.df.data[c][r]]]
        IN  /\ ret.page.snapshot
            /\ Len(rows) = NRows(arg.df)
            /\ \A r \in 1..Len(src) : Count(rows, src[r]) = Count(src, src[r])
            /\ \A i \in 1..Len(rows), j \in 1..Len(rows) :
                  i < j =>
                     /\ rows[i].Value = NaN => rows[j].Value = NaN
                     /\ (rows[i].Value.t = "int" /\ rows[j].Value.t = "int")
                            => rows[i].Value.n >= rows[j].Value.n

---------------------------------------------------------------------------
(* SpecLoad: load_sheet's normalisation on bounded sheets.                 *)

MaxSheetCols == 4

\* Header cells pd.read_excel can hand over: texts and numbers.
RawLabels ==
    { COUNTRY,
      COAL,
      StrV(<<"2", "0", "2", "0">>),
      IntV(2020),
      StrV(<<" ", "9">>),
      StrV(<<"-", "5">>),
      StrV(<<"2", "0", "2", "0", ".", "0">>),
      StrV(UNNAMED \o <<":", " ", "1">>),
      StrV(UNNAMED) }

\* A sheet of one row whose cells number the columns.
RawSheet(labels) ==
    Frame(labels, [i \in 1..Len(labels) |-> <<IntV(i)>>])

InitLoad ==
    /\ ProcessInit
    /\ ret = NoRet
    /\ \E k \in 1..MaxSheetCols :
          \E labels \in [1..k -> RawLabels] :
              arg = [df |-> RawSheet(labels), label |-> ""]

ApplyLoad ==
    /\ ret.op = "none"
    /\ ret' = [ret EXCEPT !.op = "load", !.frame = NormalizeSheet(arg.df)]
    /\ UNCHANGED <<processVars, arg>>

NextLoad == ApplyLoad

SpecLoad == InitLoad /\ [][NextLoad]_vars

\* The text begins with the seven letters of "Unnamed".
BeginsUnnamed(v) ==
    /\ v.t = "str"
    /\ Len(v.s) >= 7
    /\ \A i \in 1..7 : v.s[i] = UNNAMED[i]

\* The characters of a text other than blanks.
RECURSIVE NoBlanks(_)
NoBlanks(s) ==
    IF s = <<>> THEN <<>>
    ELSE (IF Head(s) = " " THEN <<>> ELSE <<Head(s)>>) \o NoBlanks(Tail(s))

\* The label is the integer n, or a text that writes n.
WritesInt(v, n) ==
    \/ v.t = "int" /\ v.n = n
    \/ v.t = "str" /\ NoBlanks(v.s) = IntToStr(n)

\* The label is an integer or a text of digits behind an optional sign.
ReadsAsInt(v) ==
    \/ v.t = "int"
    \/ /\ v.t = "str"
       /\ LET b == NoBlanks(v.s)
              d == IF b # <<>> /\ Head(b) = "-" THEN Tail(b) ELSE b
          IN  d # <<>> /\ \A i \in 1..Len(d) : d[i] \in SeqRange(Digits)

\* C10: load_sheet never renames "Country", renames every other column whose
\* label parses as an integer to that integer, leaves every other label as it
\* is, and returns no column whose label starts with "Unnamed".
C10_ColumnNormalization ==
    ret.op = "load" =>
        LET raw == arg.df
            out == ret.frame
            Image(i) == {j \in 1..Len(out.columns) : out.data[j] = raw.data[i]}
        IN  /\ \A j \in 1..Len(out.columns) :
                  /\ ~BeginsUnnamed(out.columns[j])
                  /\ \E i \in 1..Len(raw.columns) : j \in Image(i)
            /\ \A i \in 1..Len(raw.columns) :
                  IF BeginsUnnamed(raw.columns[i]) THEN Image(i) = {}
                  ELSE /\ Cardinality(Image(i)) = 1
                       /\ LET new == out.columns[CHOOSE j \in Image(i) : TRUE]
                          IN  IF raw.columns[i] = COUNTRY THEN new = COUNTRY
                              ELSE IF ReadsAsInt(raw.columns[i])
                              THEN new.t = "int" /\ WritesInt(raw.columns[i], new.n)
                              ELSE new = raw.columns[i]

\* A load of a sheet with "Country", "2020", "Coal" and an "Unnamed: 1" column.
C10_Witness ==
    /\ ret.op = "load"
    /\ {COUNTRY, COAL, StrV(<<"2", "0", "2", "0">>), StrV(UNNAMED \o <<":", " ", "1">>)}
           \subseteq SeqRange(arg.df.columns)
    /\ SeqRange(ret.frame.columns) = {COUNTRY, COAL, IntV(2020)}

===========================================================================
